---------------------------- MODULE Spec2Model ----------------------------
(***************************************************************************)
(* Dictionary graph: GraphWriter / GraphReader over a relational store     *)
(* (graph.py) and the version-gated build of DictionaryGraph               *)
(* (dictionary_graph.py).                                                  *)
(*                                                                         *)
(* Words are sequences of one-character strings, so that the suffix tests  *)
(* and slices of the morphological rules are computed, not assumed.        *)
(* Tables are sets of rows.  A Python dict is a sequence of [key, refs]    *)
(* records in insertion order.                                             *)
(***************************************************************************)
EXTENDS Integers, Sequences, FiniteSets, TLC

VARIABLES
    vertices,        \* table vertices: set of rows [id, value]
    edges,           \* table edges: set of rows <<id1, id2>>
    data,            \* table data: value stored under 'dictionary_version'
    views,           \* temporary views of the connection: set of <<w, method>>
    adjacency_list,  \* GraphWriter.adjacency_list: sequence of [key, refs]
    word_classes,    \* build_opted's word_classes: function tag -> set of words
    pc,              \* position of the running program
    n,               \* number of add_adjacencies calls / entries read so far
    call,            \* arguments of the last neighbourhood call
    result,          \* outcome of the last neighbourhood call
    raw,             \* history: <<[adj, classes]>> as resolution found them, or <<>>
    built,           \* history: <<record>> of the save the tables hold, or <<>>
    prev             \* history: <<record>> of the completed save before it, or <<>>

vars == <<vertices, edges, data, views, adjacency_list, word_classes, pc, n,
          call, result, raw, built, prev>>

-----------------------------------------------------------------------------
(* Bounds *)

MaxAdds == 2          \* add_adjacencies calls on one writer (SpecWriter)
MaxEdges == 4         \* edges of a stored graph (Spec)
MaxQueries == 1       \* neighbourhood calls on one connection (Spec)
MaxEntries == 3       \* dictionary entries read by one build (SpecBuild)
MaxRecords == 3       \* dictionary entries read before resolution (SpecResolve)

(* The hub threshold of method 2 is 1000 in the source; it is scaled down so
   that a vertex can reach it in a graph of a few vertices. *)
Threshold == 2

-----------------------------------------------------------------------------
(* Words *)

\* word_characters = 'a-z'
Letters == {"a", "b", "c", "d", "e", "f", "g", "h", "i", "j", "k", "l", "m",
            "n", "o", "p", "q", "r", "s", "t", "u", "v", "w", "x", "y", "z"}

ax     == <<"a", "x">>
axe    == <<"a", "x", "e">>
axes   == <<"a", "x", "e", "s">>
axed   == <<"a", "x", "e", "d">>
ply    == <<"p", "l", "y">>
plies  == <<"p", "l", "i", "e", "s">>
plied  == <<"p", "l", "i", "e", "d">>
plying == <<"p", "l", "y", "i", "n", "g">>
elf    == <<"e", "l", "f">>
elves  == <<"e", "l", "v", "e", "s">>
xyz    == <<"x", "y", "z">>
a_1    == <<"a", "-", "1">>

None == "None"

\* an empty dict of sets
EmptyMap == [t \in {} |-> {}]

-----------------------------------------------------------------------------
(* Python dict with insertion order *)

Keys(d) == {d[k].key : k \in DOMAIN d}

KeyList(d) == [k \in DOMAIN d |-> d[k].key]

Get(d, key) == (CHOOSE k \in DOMAIN d : d[k].key = key)

Pairs(d) == UNION {{<<d[k].key, r>> : r \in d[k].refs} : k \in DOMAIN d}

Range(s) == {s[k] : k \in DOMAIN s}

Distinct(s) == \A j, k \in DOMAIN s : s[j] = s[k] => j = k

\* All lists of distinct elements of S with at most m elements
DistinctLists(S, m) ==
    UNION {{s \in [1..k -> S] : Distinct(s)} : k \in 0..m}

\* All orders in which the rows of S can be returned
Orders(S) == {s \in [1..Cardinality(S) -> S] : Range(s) = S}

-----------------------------------------------------------------------------
(* Tables *)

Ids == {v.id : v \in vertices}

ValueOf(id) == (CHOOSE v \in vertices : v.id = id).value

\* a lookup that answers id 0 where no row matches
LookupOrZero(value) ==
    IF \E v \in vertices : v.value = value
    THEN {(CHOOSE v \in vertices : v.value = value).id}
    ELSE {0}

\* query_value('SELECT id FROM vertices WHERE value=?'): fetchone, the first
\* matching row as {id}, or {} for None
Lookup(value) ==
    IF \E v \in vertices : v.value = value
    THEN {(CHOOSE v \in vertices : v.value = value).id}
    ELSE {}

StoreLabels == {v.value : v \in vertices}

StoreLabelEdges == {<<ValueOf(e[1]), ValueOf(e[2])>> : e \in edges}

-----------------------------------------------------------------------------
(* GraphWriter *)

\* a writer that leaves the edges table in place
DroppedTablesVerticesOnly == {"vertices"}

\* GraphWriter.tables: the tables __init__ drops and recreates
DroppedTables == {"vertices", "edges"}

\* adjacency_list after add_adjacencies(i, j)
AddedAdjacencies(d, i, j) ==
    IF i \in Keys(d)
    THEN [d EXCEPT ![Get(d, i)].refs = @ \cup j]
    ELSE Append(d, [key |-> i, refs |-> j])

\* pd.Series(vertices): the rows (index, value) that to_sql appends
SavedVertices(labels) == {[id |-> k - 1, value |-> labels[k]] : k \in DOMAIN labels}

\* vertices2: label -> index
IdOf(labels, value) == (CHOOSE k \in DOMAIN labels : labels[k] = value) - 1

\* the merges with id1 and id2 exchanged
SavedEdgesReversed(d, labels) ==
    {<<IdOf(labels, p[2]), IdOf(labels, p[1])>> :
        p \in {q \in Pairs(d) : q[1] \in Range(labels) /\ q[2] \in Range(labels)}}

\* the two inner merges of save: the pairs with both labels in the list
SavedEdges(d, labels) ==
    {<<IdOf(labels, p[1]), IdOf(labels, p[2])>> :
        p \in {q \in Pairs(d) : q[2] \in Range(labels) /\ q[1] \in Range(labels)}}

\* to_sql(if_exists='append'): a row whose primary key (vertices.id) or
\* unique pair (edges) is already stored raises IntegrityError
VerticesConflict(labels) == \E r \in SavedVertices(labels) : r.id \in Ids

EdgesConflict(d, labels) == SavedEdges(d, labels) \cap edges # {}

VerticesAfterSave(labels) ==
    IF VerticesConflict(labels) THEN vertices ELSE vertices \cup SavedVertices(labels)

EdgesAfterSave(d, labels) ==
    IF VerticesConflict(labels) \/ EdgesConflict(d, labels)
    THEN edges
    ELSE edges \cup SavedEdges(d, labels)

SaveFailed(d, labels) == VerticesConflict(labels) \/ EdgesConflict(d, labels)

-----------------------------------------------------------------------------
(* GraphReader.neighbourhood *)

\* Floating-point values as fractions; 1/0 is IEEE infinity
Float(num, den) == [num |-> num, den |-> den]

Zero == Float(0, 1)

One == Float(1, 1)

Inf == Float(1, 0)

\* numpy / pandas float division of 1.0 by an integer: no exception, inf at 0
Reciprocal(d) == IF d = 0 THEN Inf ELSE Float(1, d)

Methods == {1, 2, 3}

\* the transforms f passed to neighbourhood: None, c*2, c-1
Transforms == {None, "double", "pred"}

ApplyF(f, c) ==
    CASE f = None -> c
      [] f = "double" -> c * 2
      [] f = "pred" -> c - 1

\* SELECT id1 FROM edges WHERE id2=w
Predecessors(w) == {e[1] : e \in {d \in edges : d[2] = w}}

\* SELECT id2 FROM edges WHERE id1=w
Successors(w) == {e[2] : e \in {d \in edges : d[1] = w}}

\* the number of stored edges into id from sources in S
IndegreeFrom(S, id) == Cardinality({e \in edges : e[2] = id /\ e[1] \in S})

\* COUNT(id1) ... GROUP BY id2: the number of all stored edges into id
Indegree(id) == Cardinality({e \in edges : e[2] = id})

\* the ids that GROUP BY id2 yields a group for
Targets == {e[2] : e \in edges}

\* the view with the hub test as count <= threshold
VerticesViewAtMost(w, method) ==
    IF method = 2
    THEN {id \in (Predecessors(w) \cup Successors(w)) \cap Targets :
                Indegree(id) <= Threshold} \cup {w}
    ELSE Predecessors(w) \cup Successors(w) \cup {w}

\* the rows of the temporary view vertices_{w}_{method}
VerticesView(w, method) ==
    IF method = 2
    THEN {id \in (Predecessors(w) \cup Successors(w)) \cap Targets :
                Indegree(id) < Threshold} \cup {w}
    ELSE Predecessors(w) \cup Successors(w) \cup {w}

\* vertices JOIN view ON vertices.id = view.id
VertexRows(w, method) == {id \in Ids : id \in VerticesView(w, method)}

\* the counts taken over sources inside the view only
CountsWithin(w) ==
    LET view == VerticesView(w, 3)
    IN  [id \in VertexRows(w, 3) \cap Targets |-> IndegreeFrom(view, id)]

\* the count column of method 3: LEFT JOIN of the indegrees of the view's ids;
\* an id with no incoming edge has no count (NULL)
Counts(w) == [id \in VertexRows(w, 3) \cap Targets |-> Indegree(id)]

\* only the edges that touch w
EdgeRowsIncident(w, method) ==
    {e \in edges : e[1] \in VerticesView(w, method) /\ e[2] \in VerticesView(w, method)
                    /\ (e[1] = w \/ e[2] = w)}

\* SELECT * FROM edges WHERE id1 IN view AND id2 IN view
EdgeRows(w, method) ==
    {e \in edges : e[1] \in VerticesView(w, method) /\ e[2] \in VerticesView(w, method)}

\* weights: ones, divided for method 3 by f(count) of the edge's target
EdgeWeight(w, method, f, e) ==
    IF method = 3 THEN Reciprocal(ApplyF(f, Counts(w)[e[2]])) ELSE One

\* vertices['i'] = arange: the position of id in the row order, from 0
NewIndex(order, id) == (CHOOSE k \in DOMAIN order : order[k] = id) - 1

\* the pair returned: the labels by new index and the matrix over new indices
Returned(w, method, f, order) ==
    LET size == Len(order)
        rows == EdgeRows(w, method)
    IN  [status |-> "ok",
         labels |-> [i \in 0..(size - 1) |-> ValueOf(order[i + 1])],
         matrix |-> [c \in (0..(size - 1)) \X (0..(size - 1)) |->
                        IF <<order[c[1] + 1], order[c[2] + 1]>> \in rows
                        THEN EdgeWeight(w, method, f, <<order[c[1] + 1], order[c[2] + 1]>>)
                        ELSE Zero]]

Raised == [status |-> "error"]

NoResult == [status |-> "none"]

NoCall == [value |-> None, method |-> 0, f |-> None]

-----------------------------------------------------------------------------
(* SpecWriter: a freshly constructed GraphWriter, add_adjacencies, save *)

\* the words passed to add_adjacencies and save
WriterWords == {ax, axe, elf}

InitWriter ==
    /\ vertices = {}
    /\ edges = {}
    /\ data = None
    /\ views = {}
    /\ adjacency_list = <<>>
    /\ word_classes = EmptyMap
    /\ pc = "writer"
    /\ n = 0
    /\ call = NoCall
    /\ result = NoResult
    /\ raw = <<>>
    /\ built = <<>>
    /\ prev = <<>>

AddAdjacencies(i, j) ==
    /\ pc = "writer"
    /\ n < MaxAdds
    /\ adjacency_list' = AddedAdjacencies(adjacency_list, i, j)
    /\ n' = n + 1
    /\ UNCHANGED <<vertices, edges, data, views, word_classes, pc, call, result,
                   raw, built, prev>>

\* built records the list given to save
Save(labels) ==
    /\ pc = "writer"
    /\ vertices' = VerticesAfterSave(labels)
    /\ edges' = EdgesAfterSave(adjacency_list, labels)
    /\ pc' = IF SaveFailed(adjacency_list, labels) THEN "failed" ELSE "stored"
    /\ built' = <<[labels |-> labels]>>
    /\ UNCHANGED <<data, views, adjacency_list, word_classes, n, call, result,
                   raw, prev>>

NextWriter ==
    \/ \E i \in WriterWords, j \in SUBSET WriterWords : AddAdjacencies(i, j)
    \/ \E labels \in DistinctLists(WriterWords, Cardinality(WriterWords)) : Save(labels)

SpecWriter == InitWriter /\ [][NextWriter]_vars

-----------------------------------------------------------------------------
(* Spec: a GraphReader on a new connection to a stored graph *)

\* the words asked for: ply is never stored
QueryWords == WriterWords \cup {ply}

\* the vertex lists of the stored graphs
StoredLists == {<<>>, <<ax>>, <<ax, axe>>, <<ax, axe, elf>>}

\* the graphs save can have stored for a list: ids by position, any edges
\* between them
StoredEdgeSets(labels) ==
    {E \in SUBSET ((0..(Len(labels) - 1)) \X (0..(Len(labels) - 1))) :
        Cardinality(E) <= MaxEdges}

Init ==
    /\ \E labels \in StoredLists :
          /\ vertices = SavedVertices(labels)
          /\ edges \in StoredEdgeSets(labels)
    /\ data = None
    /\ views = {}
    /\ adjacency_list = <<>>
    /\ word_classes = EmptyMap
    /\ pc = "stored"
    /\ n = 0
    /\ call = NoCall
    /\ result = NoResult
    /\ raw = <<>>
    /\ built = <<>>
    /\ prev = <<>>

Neighbourhood(value, method, f) ==
    /\ pc = "stored"
    /\ n < MaxQueries
    /\ n' = n + 1
    /\ call' = [value |-> value, method |-> method, f |-> f]
    /\ IF Lookup(value) = {}
       THEN /\ result' = Raised
            /\ views' = views
       ELSE LET w == CHOOSE id \in Lookup(value) : TRUE
            IN  /\ views' = views \cup {<<w, method>>}
                /\ \E order \in Orders(VertexRows(w, method)) :
                        result' = Returned(w, method, f, order)
    /\ UNCHANGED <<vertices, edges, data, adjacency_list, word_classes, pc,
                   raw, built, prev>>

Next ==
    \E value \in QueryWords, method \in Methods :
        \E f \in IF method = 3 THEN Transforms ELSE {None} :
            Neighbourhood(value, method, f)

Spec == Init /\ [][Next]_vars

-----------------------------------------------------------------------------
(* DictionaryGraph: word classes and morphological resolution (build_opted) *)

\* DictionaryGraph.version
Version == "4"

\* the rebuild test of a constructor that rebuilds only an untagged store
NeedsRebuildWhenAbsent(tag) == tag = None

\* self.data.get('dictionary_version') != DictionaryGraph.version
NeedsRebuild(tag) == tag # Version

\* the grammatical tags of the entries
NounTag == <<"n", ".">>
VerbTag == <<"v", ".", " ", "t", ".">>
AdjectiveTag == <<"a", ".">>

Tags == {NounTag, VerbTag, AdjectiveTag}

\* cls.word_pattern.fullmatch(s): one or more of a-z
IsWord(s) == Len(s) > 0 /\ \A k \in DOMAIN s : s[k] \in Letters

\* str.startswith / str.endswith
StartsWith(s, p) == Len(s) >= Len(p) /\ SubSeq(s, 1, Len(p)) = p

EndsWith(s, p) == Len(s) >= Len(p) /\ SubSeq(s, Len(s) - Len(p) + 1, Len(s)) = p

\* s[:-k]
DropLast(s, k) == IF Len(s) >= k THEN SubSeq(s, 1, Len(s) - k) ELSE <<>>

\* word_classes after the entry's word is added under its tag
ClassesWith(wc, tag, word) ==
    IF tag \in DOMAIN wc
    THEN [wc EXCEPT ![tag] = @ \cup {word}]
    ELSE [t \in DOMAIN wc \cup {tag} |-> IF t = tag THEN {word} ELSE wc[t]]

\* nouns = word_classes['n.'] (KeyError when no entry is tagged 'n.')
Nouns(wc) == wc[NounTag]

\* verbs: the union of the classes whose tag starts with 'v.'
Verbs(wc) == UNION {wc[t] : t \in {u \in DOMAIN wc : StartsWith(u, <<"v", ".">>)}}

\* every rule that matches contributes
ResolveTokenAllMatches(i, defined, nouns, verbs) ==
    (IF i \in defined THEN {i} ELSE {})
    \cup (IF EndsWith(i, <<"s">>) /\ DropLast(i, 1) \in nouns THEN {DropLast(i, 1)} ELSE {})
    \cup (IF EndsWith(i, <<"e", "s">>) /\ DropLast(i, 2) \in nouns THEN {DropLast(i, 2)} ELSE {})
    \cup (IF EndsWith(i, <<"v", "e", "s">>) /\ DropLast(i, 3) \o <<"f">> \in nouns
          THEN {DropLast(i, 3) \o <<"f">>} ELSE {})
    \cup (IF EndsWith(i, <<"i", "e", "s">>) /\ DropLast(i, 3) \o <<"y">> \in nouns
          THEN {DropLast(i, 3) \o <<"y">>} ELSE {})
    \cup (IF EndsWith(i, <<"d">>) /\ DropLast(i, 1) \in verbs THEN {DropLast(i, 1)} ELSE {})
    \cup (IF EndsWith(i, <<"e", "d">>) /\ DropLast(i, 2) \in verbs THEN {DropLast(i, 2)} ELSE {})
    \cup (IF EndsWith(i, <<"i", "e", "d">>) /\ DropLast(i, 3) \o <<"y">> \in verbs
          THEN {DropLast(i, 3) \o <<"y">>} ELSE {})
    \cup (IF EndsWith(i, <<"i", "n", "g">>) /\ DropLast(i, 3) \in verbs
          THEN {DropLast(i, 3)} ELSE {})

\* the if / elif chain over one token i: what it adds to filtered_words
ResolveToken(i, defined, nouns, verbs) ==
    IF i \in defined THEN {i}
    ELSE IF EndsWith(i, <<"s">>) /\ DropLast(i, 1) \in nouns THEN {DropLast(i, 1)}
    ELSE IF EndsWith(i, <<"e", "s">>) /\ DropLast(i, 2) \in nouns THEN {DropLast(i, 2)}
    ELSE IF EndsWith(i, <<"v", "e", "s">>) /\ DropLast(i, 3) \o <<"f">> \in nouns
        THEN {DropLast(i, 3) \o <<"f">>}
    ELSE IF EndsWith(i, <<"i", "e", "s">>) /\ DropLast(i, 3) \o <<"y">> \in nouns
        THEN {DropLast(i, 3) \o <<"y">>}
    ELSE IF EndsWith(i, <<"d">>) /\ DropLast(i, 1) \in verbs THEN {DropLast(i, 1)}
    ELSE IF EndsWith(i, <<"e", "d">>) /\ DropLast(i, 2) \in verbs THEN {DropLast(i, 2)}
    ELSE IF EndsWith(i, <<"i", "e", "d">>) /\ DropLast(i, 3) \o <<"y">> \in verbs
        THEN {DropLast(i, 3) \o <<"y">>}
    ELSE IF EndsWith(i, <<"i", "n", "g">>) /\ DropLast(i, 3) \in verbs
        THEN {DropLast(i, 3)}
    ELSE {}

\* the loop over adjacency_list: every set replaced by its filtered_words
Filtered(d, wc) ==
    [k \in DOMAIN d |->
        [key |-> d[k].key,
         refs |-> UNION {ResolveToken(i, Keys(d), Nouns(wc), Verbs(wc)) : i \in d[k].refs}]]

-----------------------------------------------------------------------------
(* SpecBuild: opening a DictionaryGraph, the version-gated build *)

\* an entry of a dictionary page: headword, tag, the words of its definition
Entry(word, tag, tokens) == [word |-> word, tag |-> tag, tokens |-> tokens]

\* the entries the pages may hold
BuildEntries ==
    {Entry(ax, NounTag, {axes, elf}), Entry(axe, NounTag, {axes, xyz}),
     Entry(elf, NounTag, {elves, ax}), Entry(ply, VerbTag, {plied, axed}),
     Entry(ax, VerbTag, {plying, ply}), Entry(a_1, NounTag, {ax})}

\* a store written by the previous version of the program
LegacyVertices == {[id |-> 0, value |-> xyz], [id |-> 1, value |-> ax]}

LegacyEdges == {<<0, 1>>, <<1, 1>>}

InitBuild ==
    /\ \/ vertices = {} /\ edges = {} /\ data = None
       \/ vertices = LegacyVertices /\ edges = LegacyEdges /\ data = "3"
    /\ views = {}
    /\ adjacency_list = <<>>
    /\ word_classes = EmptyMap
    /\ pc = "closed"
    /\ n = 0
    /\ call = NoCall
    /\ result = NoResult
    /\ raw = <<>>
    /\ built = <<>>
    /\ prev = <<>>

\* __init__ with a stored tag that differs: GraphWriter(conn) drops and
\* recreates the tables and commits.  The history of the save before moves to prev.
OpenRebuild ==
    /\ pc = "closed"
    /\ NeedsRebuild(data)
    /\ vertices' = IF "vertices" \in DroppedTables THEN {} ELSE vertices
    /\ edges' = IF "edges" \in DroppedTables THEN {} ELSE edges
    /\ adjacency_list' = <<>>
    /\ word_classes' = EmptyMap
    /\ n' = 0
    /\ raw' = <<>>
    /\ built' = <<>>
    /\ prev' = IF built # <<>> THEN built ELSE prev
    /\ pc' = "entries"
    /\ UNCHANGED <<data, views, call, result>>

\* __init__ with the current tag stored: nothing is built
OpenCurrent ==
    /\ pc = "closed"
    /\ ~NeedsRebuild(data)
    /\ pc' = "open"
    /\ UNCHANGED <<vertices, edges, data, views, adjacency_list, word_classes, n,
                   call, result, raw, built, prev>>

\* one entry of a page: kept when its headword is a word
ReadEntry(e, max) ==
    /\ pc = "entries"
    /\ n < max
    /\ n' = n + 1
    /\ IF IsWord(e.word)
       THEN /\ adjacency_list' = AddedAdjacencies(adjacency_list, e.word, e.tokens)
            /\ word_classes' = ClassesWith(word_classes, e.tag, e.word)
       ELSE UNCHANGED <<adjacency_list, word_classes>>
    /\ UNCHANGED <<vertices, edges, data, views, pc, call, result, raw, built, prev>>

\* a failed assertion on an entry, an unexpected response status or an
\* interruption ends the constructor; what was committed stays
Abort ==
    /\ pc \in {"entries", "resolved", "saved"}
    /\ pc' = "closed"
    /\ UNCHANGED <<vertices, edges, data, views, adjacency_list, word_classes, n,
                   call, result, raw, built, prev>>

\* the resolution loop, or KeyError when no entry is tagged 'n.'
Resolve ==
    /\ pc = "entries"
    /\ IF NounTag \in DOMAIN word_classes
       THEN /\ adjacency_list' = Filtered(adjacency_list, word_classes)
            /\ raw' = <<[adj |-> adjacency_list, classes |-> word_classes]>>
            /\ pc' = "resolved"
       ELSE /\ pc' = "closed"
            /\ UNCHANGED <<adjacency_list, raw>>
    /\ UNCHANGED <<vertices, edges, data, views, word_classes, n, call, result,
                   built, prev>>

\* writer.save(list(writer.adjacency_list))
SaveBuild ==
    /\ pc = "resolved"
    /\ LET labels == KeyList(adjacency_list)
       IN  /\ vertices' = VerticesAfterSave(labels)
           /\ edges' = EdgesAfterSave(adjacency_list, labels)
           /\ IF SaveFailed(adjacency_list, labels)
              THEN pc' = "closed" /\ built' = built
              ELSE pc' = "saved" /\
                   built' = <<[src |-> raw[1], vertices |-> vertices', edges |-> edges']>>
    /\ UNCHANGED <<data, views, adjacency_list, word_classes, n, call, result,
                   raw, prev>>

\* self.data.set('dictionary_version', DictionaryGraph.version)
SetVersion ==
    /\ pc = "saved"
    /\ data' = Version
    /\ pc' = "open"
    /\ UNCHANGED <<vertices, edges, views, adjacency_list, word_classes, n, call,
                   result, raw, built, prev>>

\* __del__: the connection is closed
Close ==
    /\ pc = "open"
    /\ pc' = "closed"
    /\ UNCHANGED <<vertices, edges, data, views, adjacency_list, word_classes, n,
                   call, result, raw, built, prev>>

NextBuild ==
    \/ OpenRebuild
    \/ OpenCurrent
    \/ \E e \in BuildEntries : ReadEntry(e, MaxEntries)
    \/ Abort
    \/ Resolve
    \/ SaveBuild
    \/ SetVersion
    \/ Close

SpecBuild == InitBuild /\ [][NextBuild]_vars

-----------------------------------------------------------------------------
(* SpecResolve: the entries of a build up to the end of resolution *)

ResolveHeadwords == {ax, axe, axes, ply, elf}

\* the sets of words a definition may hold
Definitions == {{axes, axed, xyz}, {elves, plies, plied, plying, ax}}

ResolveEntries ==
    {Entry(w, t, d) : w \in ResolveHeadwords, t \in Tags, d \in Definitions}

\* the state in which build_opted starts: the writer just constructed
InitResolve ==
    /\ vertices = {}
    /\ edges = {}
    /\ data = None
    /\ views = {}
    /\ adjacency_list = <<>>
    /\ word_classes = EmptyMap
    /\ pc = "entries"
    /\ n = 0
    /\ call = NoCall
    /\ result = NoResult
    /\ raw = <<>>
    /\ built = <<>>
    /\ prev = <<>>

NextResolve ==
    \/ \E e \in ResolveEntries : ReadEntry(e, MaxRecords)
    \/ Resolve

SpecResolve == InitResolve /\ [][NextResolve]_vars

-----------------------------------------------------------------------------
(* Properties of neighbourhood, stated over the stored graph itself *)

Known == \E v \in vertices : v.value = call.value

Answered == result.status = "ok"

\* the vertex id of the word asked for
AskedId == (CHOOSE v \in vertices : v.value = call.value).id

LabelOf(id) == (CHOOSE v \in vertices : v.id = id).value

IdOfLabel(value) == (CHOOSE v \in vertices : v.value = value).id

\* C = {w} + predecessors(w) + successors(w)
CandidateSet(w) ==
    {w} \cup {u \in Ids : <<u, w>> \in edges} \cup {v \in Ids : <<w, v>> \in edges}

\* number of stored edges u -> v with u in S
RestrictedIndegree(S, v) == Cardinality({u \in S : <<u, v>> \in edges})

\* number of all stored edges into v
GlobalIndegree(v) == Cardinality({u \in Ids : <<u, v>> \in edges})

\* the stored edges with both endpoints in S
EdgesWithin(S) == {e \in edges : e[1] \in S /\ e[2] \in S}

ReturnedWords == {result.labels[i] : i \in DOMAIN result.labels}

ReturnedSize == Cardinality(DOMAIN result.labels)

\* the labels are a bijection from 0..size-1 onto the words of S, and the
\* matrix is indexed by the same range
Reindexed(S) ==
    /\ DOMAIN result.labels = 0..(Cardinality(S) - 1)
    /\ \A a, b \in DOMAIN result.labels : result.labels[a] = result.labels[b] => a = b
    /\ ReturnedWords = {LabelOf(v) : v \in S}
    /\ DOMAIN result.matrix = (DOMAIN result.labels) \X (DOMAIN result.labels)

\* the stored edge, if any, that the matrix cell (a, b) stands for
CellEdge(a, b) == <<IdOfLabel(result.labels[a]), IdOfLabel(result.labels[b])>>

NonZeroCells == {c \in DOMAIN result.matrix : result.matrix[c] # Zero}

\* the transform applied to one count
Transformed(f, c) == IF f = "double" THEN 2 * c ELSE IF f = "pred" THEN c - 1 ELSE c

\* C1: method 2 returns exactly {v in C : indegree of v from sources in C
\* is below the threshold} + {w}
C1_Method2KeepsByRestrictedIndegree ==
    (Answered /\ call.method = 2) =>
        LET C == CandidateSet(AskedId)
        IN  ReturnedWords =
                {LabelOf(v) : v \in {u \in C : RestrictedIndegree(C, u) < Threshold}
                                        \cup {AskedId}}

\* C4: method 3 returns the whole candidate set C, one nonzero cell per stored
\* edge i -> j within C, and that cell is 1 / f(g(j)) with g(j) the number of
\* all stored edges into j (f omitted: 1 / g(j))
C4_Method3GlobalWeights ==
    (Answered /\ call.method = 3) =>
        LET C == CandidateSet(AskedId)
        IN  /\ Reindexed(C)
            /\ \A c \in DOMAIN result.matrix :
                    LET e == CellEdge(c[1], c[2])
                        d == Transformed(call.f, GlobalIndegree(e[2]))
                    IN  IF e \in edges
                        THEN /\ result.matrix[c] # Zero
                             /\ d # 0 => result.matrix[c] = Float(1, d)
                        ELSE result.matrix[c] = Zero
            /\ Cardinality(NonZeroCells) = Cardinality(EdgesWithin(C))

\* a method 3 answer with f = c*2 over an edge whose target has more incoming
\* edges in the whole graph than from inside C
C4_Witness ==
    /\ Answered /\ call.method = 3 /\ call.f = "double"
    /\ \E e \in EdgesWithin(CandidateSet(AskedId)) :
            GlobalIndegree(e[2]) > RestrictedIndegree(CandidateSet(AskedId), e[2])

\* C5: method 3 raises, and returns nothing, whenever f maps to zero the
\* global indegree of the target of an edge within C
C5_ZeroTransformRaises ==
    (call.method = 3 /\ Known /\
        \E e \in EdgesWithin(CandidateSet(AskedId)) :
            Transformed(call.f, GlobalIndegree(e[2])) = 0)
    => result.status = "error"

\* C6: method 1 returns a bijection from 0..n-1 onto the words of C and the
\* 0/1 matrix of the stored edges within C under the same indexing
C6_Method1Adjacency ==
    (Answered /\ call.method = 1) =>
        LET C == CandidateSet(AskedId)
        IN  /\ Reindexed(C)
            /\ \A c \in DOMAIN result.matrix :
                    result.matrix[c] =
                        IF CellEdge(c[1], c[2]) \in edges THEN One ELSE Zero
            /\ Cardinality(NonZeroCells) = Cardinality(EdgesWithin(C))

\* a method 1 answer of three vertices with an edge between two neighbours of
\* w, a self-loop, and a new index that differs from the stored id
C6_Witness ==
    /\ Answered /\ call.method = 1 /\ ReturnedSize = 3
    /\ \E e \in edges : e[1] # AskedId /\ e[2] # AskedId /\ e[1] # e[2]
    /\ \E e \in edges : e[1] = e[2]
    /\ \E i \in DOMAIN result.labels : IdOfLabel(result.labels[i]) # i

\* the words method 1 returns for the word asked
Method1Words == {ValueOf(id) : id \in VertexRows(AskedId, 1)}

\* C7 as stated: the method 2 set is within the method 1 set, contains w, and
\* excludes every vertex whose indegree from sources in C reaches the threshold
C7_Method2ExcludesEveryHub ==
    (Answered /\ call.method = 2) =>
        LET C == CandidateSet(AskedId)
        IN  /\ ReturnedWords \subseteq Method1Words
            /\ LabelOf(AskedId) \in ReturnedWords
            /\ \A v \in C : RestrictedIndegree(C, v) >= Threshold
                                => LabelOf(v) \notin ReturnedWords

\* C7 amended: ... and excludes every vertex other than w whose indegree from
\* sources in C reaches the threshold
C7_Method2ExcludesOtherHubs ==
    (Answered /\ call.method = 2) =>
        LET C == CandidateSet(AskedId)
        IN  /\ ReturnedWords \subseteq Method1Words
            /\ LabelOf(AskedId) \in ReturnedWords
            /\ \A v \in C \ {AskedId} : RestrictedIndegree(C, v) >= Threshold
                                => LabelOf(v) \notin ReturnedWords

\* a method 2 answer that dropped a hub of C and kept w, itself a hub
C7_Witness ==
    /\ Answered /\ call.method = 2
    /\ LET C == CandidateSet(AskedId)
       IN  /\ RestrictedIndegree(C, AskedId) >= Threshold
           /\ \E v \in C \ {AskedId} : RestrictedIndegree(C, v) >= Threshold

\* C8: a call for a word with no vertex raises, whatever the method, returns
\* nothing, and changes neither table nor the set of temporary views
C8_UnknownWordRaises ==
    [][(n' = n + 1 /\ ~(\E v \in vertices : v.value = call'.value))
        => /\ result' = [status |-> "error"]
           /\ vertices' = vertices
           /\ edges' = edges
           /\ views' = views]_vars

\* a call for a word that is not stored, on a store that holds a graph
C8_Witness ==
    /\ n > 0 /\ ~Known /\ result.status = "error"
    /\ edges # {}

-----------------------------------------------------------------------------
(* Properties of save *)

Position(labels, value) == (CHOOSE k \in DOMAIN labels : labels[k] = value) - 1

\* C2: after save(labels) on a fresh writer the vertices table holds one row
\* (position, label) per label, the edges table holds exactly the pairs
\* (id(word), id(ref)) of the adjacency map with word and ref both in labels,
\* pairs with an endpoint outside labels are dropped without error, and every
\* stored edge joins stored vertices
C2_SaveStoresInducedSubgraph ==
    /\ pc # "failed"
    /\ pc = "stored" =>
        LET labels == built[1].labels
            listed == {labels[k] : k \in DOMAIN labels}
        IN  /\ vertices = {[id |-> k - 1, value |-> labels[k]] : k \in DOMAIN labels}
            /\ Cardinality(vertices) = Len(labels)
            /\ \A e \in edges : e[1] \in Ids /\ e[2] \in Ids
            /\ \A k \in DOMAIN adjacency_list : \A r \in adjacency_list[k].refs :
                    (adjacency_list[k].key \in listed /\ r \in listed)
                    => <<Position(labels, adjacency_list[k].key), Position(labels, r)>>
                            \in edges
            /\ \A e \in edges : \E k \in DOMAIN adjacency_list :
                    /\ adjacency_list[k].key = LabelOf(e[1])
                    /\ LabelOf(e[2]) \in adjacency_list[k].refs

\* a save that stored an edge and dropped both a pair whose word and a pair
\* whose reference is not in the list
C2_Witness ==
    /\ pc = "stored" /\ edges # {}
    /\ \E p \in Pairs(adjacency_list) : p[1] \notin StoreLabels /\ p[2] \in StoreLabels
    /\ \E p \in Pairs(adjacency_list) : p[1] \in StoreLabels /\ p[2] \notin StoreLabels

-----------------------------------------------------------------------------
(* Properties of morphological resolution *)

\* the documented rules 2..9: the ending removed, what replaces it, and
\* whether the result must be a noun (else a verb)
RuleTable ==
    [r \in 2..9 |->
        CASE r = 2 -> [ending |-> <<"s">>, put |-> <<>>, noun |-> TRUE]
          [] r = 3 -> [ending |-> <<"e", "s">>, put |-> <<>>, noun |-> TRUE]
          [] r = 4 -> [ending |-> <<"v", "e", "s">>, put |-> <<"f">>, noun |-> TRUE]
          [] r = 5 -> [ending |-> <<"i", "e", "s">>, put |-> <<"y">>, noun |-> TRUE]
          [] r = 6 -> [ending |-> <<"d">>, put |-> <<>>, noun |-> FALSE]
          [] r = 7 -> [ending |-> <<"e", "d">>, put |-> <<>>, noun |-> FALSE]
          [] r = 8 -> [ending |-> <<"i", "e", "d">>, put |-> <<"y">>, noun |-> FALSE]
          [] r = 9 -> [ending |-> <<"i", "n", "g">>, put |-> <<>>, noun |-> FALSE]]

\* t with the ending of rule r replaced, when t has that ending
RuleOutput(r, t) ==
    IF r = 1 THEN t
    ELSE LET cut == Len(t) - Len(RuleTable[r].ending)
         IN  [k \in 1..(cut + Len(RuleTable[r].put)) |->
                IF k <= cut THEN t[k] ELSE RuleTable[r].put[k - cut]]

HasEnding(r, t) ==
    LET cut == Len(t) - Len(RuleTable[r].ending)
    IN  cut >= 0 /\ \A k \in 1..Len(RuleTable[r].ending) : t[cut + k] = RuleTable[r].ending[k]

RuleMatches(r, t, headwords, nouns, verbs) ==
    IF r = 1 THEN t \in headwords
    ELSE HasEnding(r, t) /\
         RuleOutput(r, t) \in (IF RuleTable[r].noun THEN nouns ELSE verbs)

MatchingRules(t, headwords, nouns, verbs) ==
    {r \in 1..9 : RuleMatches(r, t, headwords, nouns, verbs)}

\* what t contributes: the output of the first matching rule, or nothing
Contribution(t, headwords, nouns, verbs) ==
    LET m == MatchingRules(t, headwords, nouns, verbs)
    IN  IF m = {} THEN {}
        ELSE {RuleOutput(CHOOSE r \in m : \A q \in m : r <= q, t)}

\* the headwords tagged exactly 'n.', and those under a tag starting 'v.'
NounsOf(classes) ==
    UNION {classes[t] : t \in {u \in DOMAIN classes : u = <<"n", ".">>}}

VerbsOf(classes) ==
    UNION {classes[t] : t \in {u \in DOMAIN classes :
                Len(u) >= 2 /\ u[1] = "v" /\ u[2] = "."}}

\* C10: resolution replaces every headword's set by the union, over its
\* tokens, of the output of the first rule 1..9 the token satisfies (nothing
\* when none matches), and every element of the result is a headword
C10_FirstMatchingRuleWins ==
    pc = "resolved" =>
        LET src == raw[1]
            heads == {src.adj[k].key : k \in DOMAIN src.adj}
        IN  /\ DOMAIN adjacency_list = DOMAIN src.adj
            /\ \A k \in DOMAIN src.adj :
                    /\ adjacency_list[k].key = src.adj[k].key
                    /\ adjacency_list[k].refs =
                            UNION {Contribution(t, heads, NounsOf(src.classes),
                                                VerbsOf(src.classes)) :
                                   t \in src.adj[k].refs}
                    /\ adjacency_list[k].refs \subseteq heads

\* a resolution in which a token satisfied two rules, a token satisfied only
\* a verb rule, and a token satisfied none
C10_Witness ==
    /\ pc = "resolved"
    /\ LET src == raw[1]
           heads == {src.adj[k].key : k \in DOMAIN src.adj}
           used == UNION {src.adj[k].refs : k \in DOMAIN src.adj}
           rules(t) == MatchingRules(t, heads, NounsOf(src.classes), VerbsOf(src.classes))
       IN  /\ \E t \in used : Cardinality(rules(t)) >= 2
           /\ \E t \in used : rules(t) # {} /\ rules(t) \subseteq 6..9
           /\ \E t \in used : rules(t) = {}

-----------------------------------------------------------------------------
(* Properties of the build *)

\* the labels and the edges over labels of a set of rows
RowLabels(vs) == {v.value : v \in vs}

RowLabelEdges(vs, es) ==
    {<<(CHOOSE v \in vs : v.id = e[1]).value, (CHOOSE v \in vs : v.id = e[2]).value>> :
        e \in es}

\* the graph of a build's source data: the headwords, and from each headword
\* an edge to every word its definition resolves to
SourceLabels(src) == {src.adj[k].key : k \in DOMAIN src.adj}

SourceLabelEdges(src) ==
    UNION {{<<src.adj[k].key, r>> :
                r \in UNION {Contribution(t, SourceLabels(src), NounsOf(src.classes),
                                          VerbsOf(src.classes)) : t \in src.adj[k].refs}} :
           k \in DOMAIN src.adj}

\* C3: an open with a stored tag other than the current version empties both
\* tables before anything is inserted, rows are inserted only into emptied
\* tables, the tag is written only after the save and only as the current
\* version; with the current tag stored nothing changes the tables; so the
\* current tag is stored only over the tables of a completed save
C3_VersionGatedRebuild ==
    /\ [](data = Version => (built # <<>> /\ vertices = built[1].vertices
                                          /\ edges = built[1].edges))
    /\ [][(pc = "closed" /\ pc' # "closed" /\ data # Version)
            => (vertices' = {} /\ edges' = {} /\ data' = data)]_vars
    /\ [][((vertices' # vertices \/ edges' # edges) /\ (vertices' # {} \/ edges' # {}))
            => (vertices = {} /\ edges = {} /\ data # Version)]_vars
    /\ [][data' # data => (data' = Version /\ pc = "saved" /\ built # <<>>)]_vars
    /\ [][data = Version => (vertices' = vertices /\ edges' = edges)]_vars

\* a store closed under the current tag, written by a build that followed
\* an interrupted one
C3_Witness ==
    /\ data = Version /\ pc = "closed" /\ edges # {}
    /\ prev # <<>>

\* C9: after a completed build the store holds exactly the graph of that
\* build's source data, whatever it held before, and a build that repeats the
\* source data of the build before it stores the same labels and edges
C9_RebuildReplacesGraph ==
    built # <<>> =>
        /\ \A e \in edges : e[1] \in Ids /\ e[2] \in Ids
        /\ \A u, v \in vertices : u.id = v.id => u = v
        /\ StoreLabels = SourceLabels(built[1].src)
        /\ Cardinality(vertices) = Cardinality(StoreLabels)
        /\ StoreLabelEdges = SourceLabelEdges(built[1].src)
        /\ (prev # <<>> /\ prev[1].src = built[1].src) =>
                /\ RowLabels(prev[1].vertices) = StoreLabels
                /\ RowLabelEdges(prev[1].vertices, prev[1].edges) = StoreLabelEdges

\* a second completed build of the same source data, with edges
C9_Witness ==
    /\ built # <<>> /\ prev # <<>> /\ prev[1].src = built[1].src
    /\ edges # {}

=============================================================================
